---- MODULE Spec2Model ----
(***************************************************************************)
(* A model of three pieces of the gateway:                                 *)
(*   - the backend load balancer (package httpbackend): LoadBalance,       *)
(*     newServers, servers.next and its five policies;                     *)
(*   - the Eureka service-registry sync loop (package                      *)
(*     eurekaserviceregistry): New, getClient, run, update, Close;         *)
(*   - the validation of a pipeline configuration (package pipelines):     *)
(*     CommonConfig.Prepare.                                               *)
(* Go's int is taken to be 64 bits wide (the gateway's amd64/arm64 builds).*)
(* TLC's integers are 32 bits wide, so a uint64 is kept as four 16-bit     *)
(* limbs and a uint32 as two, least significant first.                     *)
(***************************************************************************)
EXTENDS Integers, Sequences, FiniteSets, TLC

VARIABLES
    spec,       \* httpbackend.Spec: servers, serversTags, loadBalance
    phase,      \* "spec" | "rejected" | "validated" | "serving"
    validated,  \* what LoadBalance.Validate returned: "none" | "nil" | "error"
    pool,       \* the *servers built by newServers
    calls,      \* number of next() calls made on the pool
    picks,      \* picks[i]: how many calls returned the server at list index i-1
    last,       \* the latest next() call: request, outcome, random draw
    esrSpec,    \* eurekaserviceregistry.Spec: name, syncInterval
    esr,        \* the EurekaServiceRegistry: client, serversNum, done
    clients,    \* how many times eureka.NewClient has run
    run,        \* the goroutine of run(): where it is, the locals of update()
    closer,     \* the caller of Close(): where it is
    global,     \* serviceregistry.Global, as far as this registry's name goes
    tick,       \* bookkeeping of the current sync tick (one call of update)
    getters,    \* the concurrent callers of getClient(): where each one is
    clientMutex,\* esr.clientMutex: the number of readers, whether it is write-held
    config,     \* a pipelines.CommonConfig
    prepared,   \* what CommonConfig.Prepare returned
    inflight,   \* the concurrent callers of roundRobin(): their local count
    obtained    \* the counter values that roundRobin calls have obtained

lbVars == <<spec, phase, validated, pool, calls, picks, last>>

esrVars == <<esrSpec, esr, clients, run, closer, global, tick>>

getVars == <<getters, clientMutex>>

cfgVars == <<config, prepared>>

rrVars == <<inflight, obtained>>

\* what the load balancer's sequential steps leave alone, and what the steps
\* of run() and Close() leave alone
outsideLB == <<esrVars, getVars, cfgVars, rrVars>>
outsideESR == <<lbVars, getVars, cfgVars, rrVars>>

vars == <<spec, phase, validated, pool, calls, picks, last,
          esrSpec, esr, clients, run, closer, global, tick,
          getters, clientMutex, config, prepared, inflight, obtained>>

-----------------------------------------------------------------------------
(* Bounds of the model.                                                    *)

MaxServers == 3     \* servers in a spec
MaxCalls == 3       \* next() calls under a policy that reads a draw or the request
MaxRounds == 3      \* rounds over the pool made under round robin
MaxInstances == 1   \* instances of one application in an upstream response
MaxCallers == 3     \* concurrent callers of getClient()
MaxNameLen == 3     \* characters of a pipeline name
MaxGoroutines == 2  \* concurrent callers of roundRobin()

Weights == {0, 1, 2}
Urls == <<"A", "B", "C", "D", "E">>

-----------------------------------------------------------------------------
(* Unsigned machine integers as limbs.                                     *)

LimbBase == 256 * 256

Zero64 == <<0, 0, 0, 0>>

RECURSIVE AddCarry(_, _)
AddCarry(c, i) ==
    IF i > Len(c) THEN c
    ELSE IF c[i] < LimbBase - 1 THEN [c EXCEPT ![i] = @ + 1]
    ELSE AddCarry([c EXCEPT ![i] = 0], i + 1)

\* atomic.AddUint64(&x, 1): the new value, wrapping at 2^64
AddUint64One(c) == AddCarry(c, 1)

RECURSIVE ModLimbsFrom(_, _, _, _)
ModLimbsFrom(c, i, n, acc) ==
    IF i = 0 THEN acc
    ELSE ModLimbsFrom(c, i - 1, n, (acc * LimbBase + c[i]) % n)

\* the unsigned value of c, modulo n > 0
ModLimbs(c, n) == ModLimbsFrom(c, Len(c), n, 0)

RECURSIVE PowMod(_, _, _)
PowMod(b, e, n) == IF e = 0 THEN 1 % n ELSE (b * PowMod(b, e - 1, n)) % n

\* int(c) % n for a uint64 c and n > 0, as Go computes it: int(c) is c's 64 bits read
\* as a signed number (negative when the top bit is set) and the remainder takes the
\* sign of the dividend.
IntRem64(c, n) ==
    IF c[Len(c)] < LimbBase \div 2
    THEN ModLimbs(c, n)
    ELSE -((PowMod(LimbBase, Len(c), n) - ModLimbs(c, n)) % n)

\* int(h) % n for a uint32 h and n > 0: a uint32 is never negative as a 64-bit int
IntRem32(h, n) == ModLimbs(h, n)

-----------------------------------------------------------------------------
(* Strings that get hashed are sequences of bytes.                         *)

EmptyStr == <<>>
IP1 == <<49, 48, 46, 48, 46, 48, 46, 49>>      \* "10.0.0.1"
IP2 == <<49, 48, 46, 48, 46, 48, 46, 50>>      \* "10.0.0.2"
Strs == {EmptyStr, IP1, IP2}

RECURSIVE XorBits(_, _, _)
XorBits(a, b, bits) ==
    IF bits = 0 THEN 0
    ELSE (((a % 2) + (b % 2)) % 2) + 2 * XorBits(a \div 2, b \div 2, bits - 1)

\* one FNV-1a round on the 32-bit state h = <<low, high>>
FnvStep(h, byte) ==
    LET lo == (h[1] - (h[1] % 256)) + XorBits(h[1] % 256, byte, 8)
        mlo == lo * 403
    IN  << mlo % LimbBase,
           (h[2] * 403 + (mlo \div LimbBase) + (lo % 256) * 256) % LimbBase >>

RECURSIVE FnvFrom(_, _, _)
FnvFrom(str, i, h) ==
    IF i > Len(str) THEN h ELSE FnvFrom(str, i + 1, FnvStep(h, str[i]))

\* hashtool.Hash32: a stable 32-bit non-cryptographic hash of a string (FNV-1a)
Hash32(str) == FnvFrom(str, 1, <<40389, 33052>>)

-----------------------------------------------------------------------------
(* Requests: what servers.next reads of an HTTPContext.                    *)

HeaderKey == "X-Key"

\* a request: its real IP and its headers, a set of <<name, value>> pairs
Requests ==
    { [realIP |-> ip, header |-> h] :
        ip \in {IP1, IP2},
        h \in {{}} \cup { {<<HeaderKey, v>>} : v \in Strs } }

DefaultRequest == [realIP |-> IP1, header |-> {}]

\* ctx.Request().RealIP()
RealIP(req) == req.realIP

\* ctx.Request().Header().Get(key): the value, or "" when the header is missing
HeaderGet(req, key) ==
    IF \E h \in req.header : h[1] = key
    THEN (CHOOSE h \in req.header : h[1] = key)[2]
    ELSE EmptyStr

-----------------------------------------------------------------------------
(* LoadBalance and its validation.                                         *)

policyRoundRobin == "roundRobin"
policyRandom == "random"
policyWeightedRandom == "weightedRandom"
policyIPHash == "ipHash"
policyHeaderHash == "headerHash"

Policies ==
    {policyRoundRobin, policyRandom, policyWeightedRandom, policyIPHash,
     policyHeaderHash}

\* a policy value outside the five known ones
policyUnknown == "leastConn"

\* Validate with the policy test forgotten: any empty key is an error
ValidateKeyOnly(lb) ==
    IF lb.headerHashKey = "" THEN "error" ELSE "nil"

\* LoadBalance.Validate: "error" or "nil"
Validate(lb) ==
    IF lb.policy = policyHeaderHash /\ lb.headerHashKey = "" THEN "error"
    ELSE "nil"

-----------------------------------------------------------------------------
(* The server pool.                                                        *)

NoPool == [count |-> Zero64, weightsSum |-> 0, servers |-> <<>>,
           lb |-> [policy |-> "", headerHashKey |-> ""]]

\* common.StrInSlice(str, slice)
StrInSlice(str, slice) == \E i \in 1..Len(slice) : slice[i] = str

\* the inner loop of newServers from tag i on: does some filter tag belong to the
\* server's tags (the loop appends the server and breaks at the first such tag)
RECURSIVE HasFilterTag(_, _, _)
HasFilterTag(server, serversTags, i) ==
    IF i > Len(serversTags) THEN FALSE
    ELSE IF StrInSlice(serversTags[i], server.tags) THEN TRUE
    ELSE HasFilterTag(server, serversTags, i + 1)

\* the outer loop of newServers from server i on, acc being the slice built so far
RECURSIVE FilterServers(_, _, _, _)
FilterServers(all, serversTags, i, acc) ==
    IF i > Len(all) THEN acc
    ELSE FilterServers(all, serversTags, i + 1,
            IF HasFilterTag(all[i], serversTags, 1) THEN Append(acc, all[i]) ELSE acc)

RECURSIVE SumWeightsFrom(_, _, _)
SumWeightsFrom(servers, i, sum) ==
    IF i > Len(servers) THEN sum
    ELSE SumWeightsFrom(servers, i + 1, sum + servers[i].weight)

\* servers.prepare: weightsSum += the weight of every server of the pool
prepare(s) == [s EXCEPT !.weightsSum = SumWeightsFrom(s.servers, 1, s.weightsSum)]

\* newServers with the weights summed over the spec's servers, not the pool's
newServersSumAll(sp) ==
    LET s == [count |-> Zero64, weightsSum |-> 0, servers |-> <<>>,
              lb |-> sp.loadBalance]
        all == [s EXCEPT !.servers = sp.servers]
    IN  IF Len(sp.serversTags) = 0
        THEN prepare(all)
        ELSE [prepare(all) EXCEPT
                !.servers = FilterServers(sp.servers, sp.serversTags, 1, <<>>)]

\* newServers(spec), the deferred prepare included
newServers(sp) ==
    LET s == [count |-> Zero64, weightsSum |-> 0, servers |-> <<>>,
              lb |-> sp.loadBalance]
    IN  IF Len(sp.serversTags) = 0
        THEN prepare([s EXCEPT !.servers = sp.servers])
        ELSE prepare([s EXCEPT
                !.servers = FilterServers(sp.servers, sp.serversTags, 1, <<>>)])

-----------------------------------------------------------------------------
(* Selection. Every policy yields the set of outcomes a call can have: the *)
(* pool after the call, whether the call panicked, the list index of the   *)
(* server returned (-1 when it panicked), the value rand.Intn returned (-1 *)
(* when it was not called), the policy function that produced the result   *)
(* and whether a "BUG:" line was logged.                                   *)

Outcome(s, panicked, index, draw, by, logged) ==
    [pool |-> s, panicked |-> panicked, index |-> index, draw |-> draw,
     by |-> by, logged |-> logged]

\* roundRobin with the incremented counter not stored back
roundRobinStuck(s, req) ==
    LET count == AddUint64One(s.count)
        n == Len(s.servers)
    IN  IF n = 0 THEN {Outcome(s, TRUE, -1, -1, "roundRobin", FALSE)}
        ELSE IF IntRem64(count, n) < 0
        THEN {Outcome(s, TRUE, -1, -1, "roundRobin", FALSE)}
        ELSE {Outcome(s, FALSE, IntRem64(count, n), -1, "roundRobin", FALSE)}

\* servers.roundRobin; the counter is incremented before the index is computed, and
\* the index panics when the pool is empty (division by zero) or it is negative
roundRobin(s, req) ==
    LET count == AddUint64One(s.count)
        s1 == [s EXCEPT !.count = count]
        n == Len(s.servers)
    IN  IF n = 0 THEN {Outcome(s1, TRUE, -1, -1, "roundRobin", FALSE)}
        ELSE IF IntRem64(count, n) < 0
        THEN {Outcome(s1, TRUE, -1, -1, "roundRobin", FALSE)}
        ELSE {Outcome(s1, FALSE, IntRem64(count, n), -1, "roundRobin", FALSE)}

\* servers.random; rand.Intn(n) panics when n <= 0
random(s, req) ==
    IF Len(s.servers) <= 0 THEN {Outcome(s, TRUE, -1, -1, "random", FALSE)}
    ELSE { Outcome(s, FALSE, i, i, "random", FALSE) : i \in 0..(Len(s.servers) - 1) }

\* the loop of weightedRandom with the test written randomWeight <= 0
RECURSIVE WalkWeightsLE(_, _, _)
WalkWeightsLE(servers, i, randomWeight) ==
    IF i > Len(servers) THEN -1
    ELSE IF randomWeight - servers[i].weight <= 0 THEN i - 1
    ELSE WalkWeightsLE(servers, i + 1, randomWeight - servers[i].weight)

\* the loop of weightedRandom from server i on: the list index of the server
\* returned, or -1 when the loop ends without returning
RECURSIVE WalkWeights(_, _, _)
WalkWeights(servers, i, randomWeight) ==
    IF i > Len(servers) THEN -1
    ELSE IF randomWeight - servers[i].weight < 0 THEN i - 1
    ELSE WalkWeights(servers, i + 1, randomWeight - servers[i].weight)

\* weightedRandom subtracting the picked weight from the pool's weightsSum
weightedRandomConsuming(s, req) ==
    IF s.weightsSum <= 0 THEN {Outcome(s, TRUE, -1, -1, "weightedRandom", FALSE)}
    ELSE UNION {
            { Outcome([s EXCEPT !.weightsSum = @ - s.servers[i + 1].weight],
                      FALSE, i, r, "weightedRandom", FALSE) :
                i \in {WalkWeights(s.servers, 1, r)} \ {-1} }
            : r \in 0..(s.weightsSum - 1) }

\* servers.weightedRandom; rand.Intn(weightsSum) panics when weightsSum <= 0
weightedRandom(s, req) ==
    IF s.weightsSum <= 0 THEN {Outcome(s, TRUE, -1, -1, "weightedRandom", FALSE)}
    ELSE UNION {
            IF WalkWeights(s.servers, 1, r) >= 0
            THEN {Outcome(s, FALSE, WalkWeights(s.servers, 1, r), r,
                          "weightedRandom", FALSE)}
            ELSE { [o EXCEPT !.logged = TRUE] : o \in random(s, req) }
            : r \in 0..(s.weightsSum - 1) }

\* ipHash offset by the call counter, which it increments
ipHashCounting(s, req) ==
    LET sum32 == Hash32(RealIP(req))
        count == AddUint64One(s.count)
        s1 == [s EXCEPT !.count = count]
        n == Len(s.servers)
    IN  IF n = 0 THEN {Outcome(s1, TRUE, -1, -1, "ipHash", FALSE)}
        ELSE {Outcome(s1, FALSE, (IntRem32(sum32, n) + ModLimbs(count, n)) % n, -1,
                      "ipHash", FALSE)}

\* servers.ipHash
ipHash(s, req) ==
    LET sum32 == Hash32(RealIP(req))
    IN  IF Len(s.servers) = 0 THEN {Outcome(s, TRUE, -1, -1, "ipHash", FALSE)}
        ELSE {Outcome(s, FALSE, IntRem32(sum32, Len(s.servers)), -1, "ipHash", FALSE)}

\* headerHash hashing the real IP when the header is missing
headerHashFallbackIP(s, req) ==
    LET value == IF \E h \in req.header : h[1] = s.lb.headerHashKey
                 THEN HeaderGet(req, s.lb.headerHashKey)
                 ELSE RealIP(req)
        sum32 == Hash32(value)
    IN  IF Len(s.servers) = 0 THEN {Outcome(s, TRUE, -1, -1, "headerHash", FALSE)}
        ELSE {Outcome(s, FALSE, IntRem32(sum32, Len(s.servers)), -1, "headerHash",
                      FALSE)}

\* servers.headerHash
headerHash(s, req) ==
    LET value == HeaderGet(req, s.lb.headerHashKey)
        sum32 == Hash32(value)
    IN  IF Len(s.servers) = 0 THEN {Outcome(s, TRUE, -1, -1, "headerHash", FALSE)}
        ELSE {Outcome(s, FALSE, IntRem32(sum32, Len(s.servers)), -1, "headerHash",
                      FALSE)}

\* servers.next: the switch on the policy, and the fallback for an unknown one
next(s, req) ==
    CASE s.lb.policy = policyRoundRobin -> roundRobin(s, req)
      [] s.lb.policy = policyRandom -> random(s, req)
      [] s.lb.policy = policyWeightedRandom -> weightedRandom(s, req)
      [] s.lb.policy = policyIPHash -> ipHash(s, req)
      [] s.lb.policy = policyHeaderHash -> headerHash(s, req)
      [] OTHER -> { [o EXCEPT !.logged = TRUE] : o \in roundRobin(s, req) }

-----------------------------------------------------------------------------
(* The Eureka service registry.                                            *)

\* a map[string]int is a set of <<key, count>> pairs with distinct keys
EmptyMap == {}

MapHas(m, key) == \E e \in m : e[1] = key

\* m[key]++
MapIncrement(m, key) ==
    IF MapHas(m, key)
    THEN { IF e[1] = key THEN <<e[1], e[2] + 1>> ELSE e : e \in m }
    ELSE m \cup {<<key, 1>>}

\* int16(x): the low 16 bits of x read as a signed number
Int16(x) ==
    IF x % LimbBase >= LimbBase \div 2 THEN (x % LimbBase) - LimbBase
    ELSE x % LimbBase

\* time.ParseDuration on the interval strings of the model: the error flag and
\* the duration in seconds
ParseDuration(str) ==
    CASE str = "10s" -> [err |-> FALSE, seconds |-> 10]
      [] str = "0s" -> [err |-> FALSE, seconds |-> 0]
      [] OTHER -> [err |-> TRUE, seconds |-> 0]

SyncIntervals == {"10s", "0s", "ten"}

\* a *eureka.Port: nil, or a port number and its enabled flag
NilPort == [present |-> FALSE, port |-> 0, enabled |-> FALSE]
Port(number, enabled) == [present |-> TRUE, port |-> number, enabled |-> enabled]

Instance(port, securePort) ==
    [hostName |-> "h1", ipAddr |-> "192.168.0.1", port |-> port,
     securePort |-> securePort]

\* the instances an application can report: plain port only, both ports, plain
\* port disabled with a secure port, and no plain port at all
Instances ==
    { Instance(Port(8080, TRUE), NilPort),
      Instance(Port(8080, TRUE), Port(8443, TRUE)),
      Instance(Port(8080, FALSE), Port(8443, TRUE)),
      Instance(NilPort, Port(8443, TRUE)) }

AppNames == <<"svc1", "svc2">>

\* the instance lists of at most MaxInstances instances
InstanceLists == UNION { [1..n -> Instances] : n \in 0..MaxInstances }

\* what GetApplications can return: applications svc1.. with their instances
Responses ==
    UNION { { [i \in 1..n |-> [name |-> AppNames[i], instances |-> l[i]]] :
                l \in [1..n -> InstanceLists] } : n \in 0..Len(AppNames) }

\* the body of update's inner loop for one instance; acc holds the servers and the
\* counts built so far, and whether the loop has panicked (instance.Port is read
\* before it is tested for nil)
FlattenInstance(appName, instance, acc) ==
    IF acc.panicked \/ ~instance.port.present
    THEN [acc EXCEPT !.panicked = TRUE]
    ELSE
      LET baseServer == [serviceName |-> appName, hostname |-> instance.hostName,
                         hostIP |-> instance.ipAddr,
                         port |-> Int16(instance.port.port), scheme |-> ""]
          plain == instance.port.present /\ instance.port.enabled
          secure == instance.securePort.present /\ instance.securePort.enabled
          acc1 == IF plain
                  THEN [acc EXCEPT !.servers = Append(@, baseServer),
                                   !.serversNum = MapIncrement(@, appName)]
                  ELSE acc
      IN  IF secure
          THEN [acc1 EXCEPT
                  !.servers = Append(@, [baseServer EXCEPT !.scheme = "https"]),
                  !.serversNum = MapIncrement(@, appName)]
          ELSE acc1

RECURSIVE FlattenInstances(_, _, _, _)
FlattenInstances(appName, instances, j, acc) ==
    IF j > Len(instances) THEN acc
    ELSE FlattenInstances(appName, instances, j + 1,
            FlattenInstance(appName, instances[j], acc))

RECURSIVE FlattenApps(_, _, _)
FlattenApps(apps, i, acc) ==
    IF i > Len(apps) THEN acc
    ELSE FlattenApps(apps, i + 1,
            FlattenInstances(apps[i].name, apps[i].instances, 1, acc))

\* the two loops of update over apps.Applications
Flatten(apps) ==
    FlattenApps(apps, 1, [panicked |-> FALSE, servers |-> <<>>, serversNum |-> EmptyMap])

NoClient == 0

\* the bookkeeping of a tick: how it ended, how many times it has called
\* ReplaceServers and written serversNum, what was published when it began,
\* and the applications its GetApplications returned
NoTick == [result |-> "none", replaces |-> 0, numWrites |-> 0,
           servers |-> <<>>, serversNum |-> EmptyMap, apps |-> <<>>]

NoLocals == [client |-> NoClient, servers |-> <<>>, serversNum |-> EmptyMap]

\* the state New() leaves: the client built by getClient, run() just started
InitESR ==
    /\ esrSpec \in { [name |-> "eureka", syncInterval |-> d] : d \in SyncIntervals }
    /\ esr = [client |-> 1, serversNum |-> EmptyMap, done |-> "open"]
    /\ clients = 1
    /\ run = [pc |-> "start", locals |-> NoLocals]
    /\ closer = "idle"
    /\ global = [servers |-> <<>>, replaced |-> FALSE, closed |-> FALSE]
    /\ tick = NoTick

Crashed == run.pc = "panicked"

RunParseIgnoresError ==
    /\ run.pc = "start"
    /\ run' = [run EXCEPT !.pc = "update"]
    /\ UNCHANGED <<esrSpec, esr, clients, closer, global, tick>>
    /\ UNCHANGED outsideESR

\* run(): the interval is parsed; a failure ends the loop before any tick
RunParse ==
    /\ run.pc = "start"
    /\ run' = [run EXCEPT !.pc = IF ParseDuration(esrSpec.syncInterval).err
                                 THEN "exited" ELSE "update"]
    /\ UNCHANGED <<esrSpec, esr, clients, closer, global, tick>>
    /\ UNCHANGED outsideESR

\* update(): getClient returns the client, building one when there is none; it
\* never returns an error
UpdateGetClient ==
    /\ run.pc = "update"
    /\ IF esr.client # NoClient
       THEN /\ run' = [pc |-> "fetch", locals |-> [NoLocals EXCEPT !.client = esr.client]]
            /\ UNCHANGED <<esr, clients>>
       ELSE /\ clients' = clients + 1
            /\ esr' = [esr EXCEPT !.client = clients']
            /\ run' = [pc |-> "fetch", locals |-> [NoLocals EXCEPT !.client = clients']]
    /\ tick' = [result |-> "running", replaces |-> 0, numWrites |-> 0,
                servers |-> global.servers, serversNum |-> esr.serversNum,
                apps |-> <<>>]
    /\ UNCHANGED <<esrSpec, closer, global>>
    /\ UNCHANGED outsideESR

UpdateFetchFailsAndClears ==
    /\ run.pc = "fetch"
    /\ run' = [pc |-> "select", locals |-> NoLocals]
    /\ global' = [global EXCEPT !.servers = <<>>, !.replaced = TRUE]
    /\ esr' = [esr EXCEPT !.serversNum = EmptyMap]
    /\ tick' = [tick EXCEPT !.result = "failed", !.replaces = @ + 1,
                             !.numWrites = @ + 1]
    /\ UNCHANGED <<esrSpec, clients, closer>>
    /\ UNCHANGED outsideESR

\* update(): client.GetApplications() fails; update logs and returns
UpdateFetchFails ==
    /\ run.pc = "fetch"
    /\ run' = [pc |-> "select", locals |-> NoLocals]
    /\ tick' = [tick EXCEPT !.result = "failed"]
    /\ UNCHANGED <<esrSpec, esr, clients, closer, global>>
    /\ UNCHANGED outsideESR

\* update(): client.GetApplications() succeeds with one of the given responses
\* and the two loops build the servers and the counts (or panic, which ends the
\* process)
UpdateFetchFrom(responses) ==
    /\ run.pc = "fetch"
    /\ \E apps \in responses :
         /\ IF Flatten(apps).panicked
            THEN run' = [pc |-> "panicked", locals |-> NoLocals]
            ELSE run' = [pc |-> "publish",
                         locals |-> [run.locals EXCEPT
                                       !.servers = Flatten(apps).servers,
                                       !.serversNum = Flatten(apps).serversNum]]
         /\ tick' = [tick EXCEPT !.apps = apps]
    /\ UNCHANGED <<esrSpec, esr, clients, closer, global>>
    /\ UNCHANGED outsideESR

UpdateFetch == UpdateFetchFrom(Responses)

UpdateReplaceServersAppending ==
    /\ run.pc = "publish"
    /\ global' = [global EXCEPT !.servers = @ \o run.locals.servers,
                                !.replaced = TRUE]
    /\ tick' = [tick EXCEPT !.replaces = @ + 1]
    /\ run' = [run EXCEPT !.pc = "setNum"]
    /\ UNCHANGED <<esrSpec, esr, clients, closer>>
    /\ UNCHANGED outsideESR

\* update(): serviceregistry.Global.ReplaceServers(name, servers)
UpdateReplaceServers ==
    /\ run.pc = "publish"
    /\ global' = [global EXCEPT !.servers = run.locals.servers, !.replaced = TRUE]
    /\ tick' = [tick EXCEPT !.replaces = @ + 1]
    /\ run' = [run EXCEPT !.pc = "setNum"]
    /\ UNCHANGED <<esrSpec, esr, clients, closer>>
    /\ UNCHANGED outsideESR

\* update(): esr.serversNum = serversNum, under statusMutex
UpdateServersNum ==
    /\ run.pc = "setNum"
    /\ esr' = [esr EXCEPT !.serversNum = run.locals.serversNum]
    /\ tick' = [tick EXCEPT !.result = "ok", !.numWrites = @ + 1]
    /\ run' = [pc |-> "select", locals |-> NoLocals]
    /\ UNCHANGED <<esrSpec, clients, closer, global>>
    /\ UNCHANGED outsideESR

\* run(): the select takes the done case
SelectDone ==
    /\ run.pc = "select"
    /\ esr.done = "closed"
    /\ run' = [run EXCEPT !.pc = "exited"]
    /\ UNCHANGED <<esrSpec, esr, clients, closer, global, tick>>
    /\ UNCHANGED outsideESR

SelectTimerAnyway ==
    /\ run.pc = "select"
    /\ run' = [run EXCEPT !.pc = "update"]
    /\ UNCHANGED <<esrSpec, esr, clients, closer, global, tick>>
    /\ UNCHANGED outsideESR

\* run(): the select takes the timer case and calls update(). A timer of a
\* positive interval is not ready when the select finds done closed; a timer of
\* zero may be.
SelectTimer ==
    /\ run.pc = "select"
    /\ esr.done = "open" \/ ParseDuration(esrSpec.syncInterval).seconds = 0
    /\ run' = [run EXCEPT !.pc = "update"]
    /\ UNCHANGED <<esrSpec, esr, clients, closer, global, tick>>
    /\ UNCHANGED outsideESR

\* Close(): closeClient()
CloseClient ==
    /\ closer = "idle"
    /\ ~Crashed
    /\ esr' = [esr EXCEPT !.client = NoClient]
    /\ closer' = "closeDone"
    /\ UNCHANGED <<esrSpec, clients, run, global, tick>>
    /\ UNCHANGED outsideESR

\* Close(): close(esr.done)
CloseDone ==
    /\ closer = "closeDone"
    /\ ~Crashed
    /\ esr' = [esr EXCEPT !.done = "closed"]
    /\ closer' = "closeRegistry"
    /\ UNCHANGED <<esrSpec, clients, run, global, tick>>
    /\ UNCHANGED outsideESR

\* Close(): serviceregistry.Global.CloseRegistry(name)
CloseRegistry ==
    /\ closer = "closeRegistry"
    /\ ~Crashed
    /\ global' = [global EXCEPT !.closed = TRUE]
    /\ closer' = "closed"
    /\ UNCHANGED <<esrSpec, esr, clients, run, tick>>
    /\ UNCHANGED outsideESR

-----------------------------------------------------------------------------
(* The load balancer's state machine: a spec is validated, the pool is     *)
(* built from it, and next() is called on the pool.                        *)

TagLists == {<<>>, <<"blue">>, <<"blue", "green">>}
TagFilters == {<<>>, <<"green">>, <<"blue", "green">>, <<"red">>}

\* the server lists of n servers, server i having the i-th URL
ServerLists(n, tagLists) ==
    { [i \in 1..n |-> [url |-> Urls[i], tags |-> t[i], weight |-> w[i]]] :
        w \in [1..n -> Weights], t \in [1..n -> tagLists] }

LoadBalances ==
    { [policy |-> p, headerHashKey |-> ""] : p \in Policies \cup {policyUnknown} }
        \cup {[policy |-> policyHeaderHash, headerHashKey |-> HeaderKey]}

NoCall == [req |-> DefaultRequest, panicked |-> FALSE, index |-> -1, draw |-> -1,
           by |-> "none", logged |-> FALSE]

\* no registry is running
IdleESR ==
    /\ esrSpec = [name |-> "", syncInterval |-> ""]
    /\ esr = [client |-> NoClient, serversNum |-> EmptyMap, done |-> "open"]
    /\ clients = 0
    /\ run = [pc |-> "none", locals |-> NoLocals]
    /\ closer = "none"
    /\ global = [servers |-> <<>>, replaced |-> FALSE, closed |-> FALSE]
    /\ tick = NoTick

\* no concurrent caller of getClient()
IdleGet ==
    /\ getters = <<>>
    /\ clientMutex = [readers |-> 0, writer |-> FALSE]

\* no pipeline configuration is being prepared
IdlePrepare ==
    /\ config = [name |-> <<>>, plugins |-> <<>>, parallelism |-> 0]
    /\ prepared = [err |-> "none", given |-> config]

\* no concurrent caller of roundRobin()
IdleConc ==
    /\ inflight = <<>>
    /\ obtained = {}

InitWith(tagLists, tagFilters, loadBalances) ==
    /\ \E n \in 0..MaxServers :
         \E servers \in ServerLists(n, tagLists) :
           \E serversTags \in tagFilters :
             \E lb \in loadBalances :
                spec = [servers |-> servers, serversTags |-> serversTags,
                        loadBalance |-> lb]
    /\ phase = "spec"
    /\ validated = "none"
    /\ pool = NoPool
    /\ calls = 0
    /\ picks = <<>>
    /\ last = NoCall
    /\ IdleESR

\* the spec is validated before anything is built from it
ValidateSpec ==
    /\ phase = "spec"
    /\ validated' = Validate(spec.loadBalance)
    /\ phase' = IF validated' = "error" THEN "rejected" ELSE "validated"
    /\ UNCHANGED <<spec, pool, calls, picks, last>>
    /\ UNCHANGED outsideLB

NewServers ==
    /\ phase = "validated"
    /\ pool' = newServers(spec)
    /\ picks' = [i \in 1..Len(pool'.servers) |-> 0]
    /\ phase' = "serving"
    /\ UNCHANGED <<spec, validated, calls, last>>
    /\ UNCHANGED outsideLB

\* how many calls a run makes: whole rounds under round robin (the policy an
\* unknown policy falls back to), MaxCalls otherwise
CallLimit ==
    IF pool.lb.policy \in Policies \ {policyRoundRobin}
    THEN MaxCalls
    ELSE IF MaxRounds * Len(pool.servers) > MaxCalls
         THEN MaxRounds * Len(pool.servers) ELSE MaxCalls

\* one call of next() on the pool
CallNext ==
    /\ phase = "serving"
    /\ calls < CallLimit
    /\ \E req \in Requests :
         \E o \in next(pool, req) :
            /\ pool' = o.pool
            /\ picks' = IF o.panicked THEN picks
                        ELSE [picks EXCEPT ![o.index + 1] = @ + 1]
            /\ last' = [req |-> req, panicked |-> o.panicked, index |-> o.index,
                        draw |-> o.draw, by |-> o.by, logged |-> o.logged]
    /\ calls' = calls + 1
    /\ UNCHANGED <<spec, phase, validated>>
    /\ UNCHANGED outsideLB

InitLB ==
    /\ InitWith({<<>>}, {<<>>}, LoadBalances)
    /\ IdleGet /\ IdlePrepare /\ IdleConc

NextLB == ValidateSpec \/ NewServers \/ CallNext

SpecLB == InitLB /\ [][NextLB]_vars

InitNew ==
    /\ InitWith(TagLists, TagFilters,
                {[policy |-> policyRoundRobin, headerHashKey |-> ""]})
    /\ IdleGet /\ IdlePrepare /\ IdleConc

NextNew == ValidateSpec \/ NewServers

SpecNew == InitNew /\ [][NextNew]_vars

-----------------------------------------------------------------------------
(* roundRobin() called by concurrent goroutines on one pool. The atomic    *)
(* add is one step of a goroutine; the indexing of s.servers that follows  *)
(* uses the goroutine's local count and the slice, which nothing writes.   *)

Goroutines == 1..MaxGoroutines

NoSelection == [pc |-> "idle", count |-> Zero64, panicked |-> FALSE, index |-> -1]

InitConc ==
    /\ InitWith({<<>>}, {<<>>}, {[policy |-> policyRoundRobin, headerHashKey |-> ""]})
    /\ inflight = [g \in Goroutines |-> NoSelection]
    /\ obtained = {}
    /\ IdleGet /\ IdlePrepare

\* how many selections a run issues: MaxRounds rounds over the pool
SelectionLimit == MaxRounds * Len(pool.servers)

RoundRobinAddRacy(g) ==
    /\ phase = "serving"
    /\ inflight[g].pc = "idle"
    /\ calls < SelectionLimit
    /\ \E o \in roundRobin(pool, DefaultRequest) :
         /\ pool' = IF \E h \in Goroutines : inflight[h].pc = "added"
                    THEN pool ELSE o.pool
         /\ inflight' = [inflight EXCEPT
                           ![g] = [pc |-> "added", count |-> o.pool.count,
                                   panicked |-> o.panicked, index |-> o.index]]
         /\ obtained' = obtained \cup {o.pool.count}
    /\ calls' = calls + 1
    /\ UNCHANGED <<spec, phase, validated, picks, last>>
    /\ UNCHANGED <<esrVars, getVars, cfgVars>>

\* roundRobin: count := atomic.AddUint64(&s.count, 1), and the index that the
\* goroutine will compute from its count
RoundRobinAdd(g) ==
    /\ phase = "serving"
    /\ inflight[g].pc = "idle"
    /\ calls < SelectionLimit
    /\ \E o \in roundRobin(pool, DefaultRequest) :
         /\ pool' = o.pool
         /\ inflight' = [inflight EXCEPT
                           ![g] = [pc |-> "added", count |-> o.pool.count,
                                   panicked |-> o.panicked, index |-> o.index]]
         /\ obtained' = obtained \cup {o.pool.count}
    /\ calls' = calls + 1
    /\ UNCHANGED <<spec, phase, validated, picks, last>>
    /\ UNCHANGED <<esrVars, getVars, cfgVars>>

\* roundRobin: return s.servers[int(count)%len(s.servers)]
RoundRobinReturn(g) ==
    /\ inflight[g].pc = "added"
    /\ picks' = IF inflight[g].panicked THEN picks
                ELSE [picks EXCEPT ![inflight[g].index + 1] = @ + 1]
    /\ last' = [req |-> DefaultRequest, panicked |-> inflight[g].panicked,
                index |-> inflight[g].index, draw |-> -1, by |-> "roundRobin",
                logged |-> FALSE]
    /\ inflight' = [inflight EXCEPT ![g] = NoSelection]
    /\ UNCHANGED <<spec, phase, validated, pool, calls, obtained>>
    /\ UNCHANGED <<esrVars, getVars, cfgVars>>

NextConc ==
    \/ ValidateSpec
    \/ NewServers
    \/ \E g \in Goroutines : RoundRobinAdd(g)
    \/ \E g \in Goroutines : RoundRobinReturn(g)

SpecConc == InitConc /\ [][NextConc]_vars

-----------------------------------------------------------------------------
(* Properties of the load balancer.                                        *)

Serving(policy) == phase = "serving" /\ pool.lb.policy = policy

PoolLen == Len(pool.servers)

\* C1: on a fresh pool under roundRobin the i-th sequential selection (i counted
\* from 0) returns the server at list index i mod n, so the first selection
\* returns the first server and [A, B, C] is served in the order A, B, C, A, ...
C1_RoundRobinStartsAtFirst ==
    (Serving(policyRoundRobin) /\ PoolLen >= 1 /\ calls >= 1)
        => (~last.panicked /\ last.index = (calls - 1) % PoolLen)

\* C2: after k*n sequential roundRobin selections on a fresh pool of n >= 1
\* servers (k >= 1), every server of the pool has been selected exactly k times.
C2_RoundRobinEven ==
    (Serving(policyRoundRobin) /\ PoolLen >= 1 /\ calls >= 1 /\ calls % PoolLen = 0)
        => \A i \in 1..PoolLen : picks[i] = calls \div PoolLen

C2_Witness ==
    /\ Serving(policyRoundRobin)
    /\ PoolLen = 3
    /\ calls = 6
    /\ picks = <<2, 2, 2>>

\* C3: on a non-empty pool whose weightsSum is 0 a weightedRandom selection
\* falls back to random: it completes without a fault and returns a server of
\* the pool.
C3_ZeroWeightsFallBack ==
    (Serving(policyWeightedRandom) /\ PoolLen >= 1 /\ pool.weightsSum = 0
        /\ calls >= 1)
        => (~last.panicked /\ last.index \in 0..(PoolLen - 1))

\* the sum of the weights of the first i servers of the list
RECURSIVE CumWeight(_, _)
CumWeight(servers, i) ==
    IF i = 0 THEN 0 ELSE CumWeight(servers, i - 1) + servers[i].weight

\* the list index of the first server whose cumulative weight exceeds r
FirstExceeding(servers, r) ==
    (CHOOSE i \in 1..Len(servers) :
        /\ CumWeight(servers, i) > r
        /\ \A j \in 1..(i - 1) : CumWeight(servers, j) <= r) - 1

\* C4: with weightsSum > 0, for every draw r in [0, weightsSum) weightedRandom
\* returns the first server in list order whose cumulative weight exceeds r; a
\* server of weight 0 is never selected, and over weights [1, 0, 0] every
\* selection returns the first server.
C4_WeightedRandomCumulative ==
    (Serving(policyWeightedRandom) /\ pool.weightsSum > 0)
        => /\ \A r \in 0..(pool.weightsSum - 1) :
                \E o \in next(pool, DefaultRequest) : o.draw = r
           /\ \A o \in next(pool, DefaultRequest) :
                /\ ~o.panicked /\ ~o.logged
                /\ o.draw \in 0..(pool.weightsSum - 1)
                /\ o.index = FirstExceeding(pool.servers, o.draw)
                /\ pool.servers[o.index + 1].weight > 0
           /\ calls >= 1 =>
                /\ ~last.panicked
                /\ last.draw \in 0..(pool.weightsSum - 1)
                /\ last.index = FirstExceeding(pool.servers, last.draw)
                /\ pool.servers[last.index + 1].weight > 0
                /\ ([i \in 1..PoolLen |-> pool.servers[i].weight] = <<1, 0, 0>>
                        => last.index = 0)

C4_Witness ==
    /\ Serving(policyWeightedRandom)
    /\ [i \in 1..PoolLen |-> pool.servers[i].weight] = <<0, 1, 2>>
    /\ calls >= 1
    /\ last.draw = 1
    /\ last.index = 2

\* the list indexes next() can return for a request on pool s (-1: a panic)
Indexes(s, req) == { o.index : o \in next(s, req) }

\* C5: ipHash is deterministic: on a non-empty pool the selected server is the one
\* at index Hash32(realIP) mod len(servers), whatever selections were made on the
\* pool before, so the same real IP always gets the same server.
C5_IPHashDeterministic ==
    (Serving(policyIPHash) /\ PoolLen >= 1)
        => /\ \A req \in Requests :
                /\ Indexes(pool, req) = {ModLimbs(Hash32(req.realIP), PoolLen)}
                /\ Indexes(pool, req) = Indexes(newServers(spec), req)
           /\ calls >= 1 =>
                /\ ~last.panicked
                /\ last.index = ModLimbs(Hash32(last.req.realIP), PoolLen)

C5_Witness ==
    /\ Serving(policyIPHash)
    /\ PoolLen = 2
    /\ calls = MaxCalls
    /\ last.req.realIP = IP1
    /\ last.index = 1

\* C6: headerHash is ipHash applied to the header value: a headerHash selection
\* for a request whose configured header has value v returns the server an ipHash
\* selection returns for a request whose real IP is v, and a request without the
\* header is treated as one whose header value is the empty string.
C6_HeaderHashAsIPHash ==
    (Serving(policyHeaderHash) /\ PoolLen >= 1)
        => /\ \A ip \in {IP1, IP2} : \A v \in Strs :
                /\ Indexes(pool, [realIP |-> ip, header |-> {<<pool.lb.headerHashKey, v>>}])
                     = { o.index : o \in ipHash(pool, [realIP |-> v, header |-> {}]) }
                /\ -1 \notin Indexes(pool, [realIP |-> ip, header |-> {}])
           /\ \A ip \in {IP1, IP2} :
                Indexes(pool, [realIP |-> ip, header |-> {}])
                  = Indexes(pool, [realIP |-> ip,
                                   header |-> {<<pool.lb.headerHashKey, EmptyStr>>}])
           /\ calls >= 1 =>
                {last.index} =
                    { o.index : o \in ipHash(pool,
                        [realIP |-> HeaderGet(last.req, pool.lb.headerHashKey),
                         header |-> {}]) }

C6_Witness ==
    /\ Serving(policyHeaderHash)
    /\ PoolLen = 3
    /\ calls >= 1
    /\ last.req = [realIP |-> IP1, header |-> {}]
    /\ last.index = 1

\* C7 as stated: Validate returns an error when the policy is headerHash with an
\* empty headerHashKey and also when the policy is none of the five known ones, so
\* next() never handles an unknown policy at selection time.
C7_ValidateRejectsUnknownPolicy ==
    /\ (validated # "none" /\ spec.loadBalance.policy = policyHeaderHash
            /\ spec.loadBalance.headerHashKey = "") => validated = "error"
    /\ (validated # "none" /\ spec.loadBalance.policy \notin Policies)
            => validated = "error"
    /\ phase = "serving" => pool.lb.policy \in Policies

\* C7 as amended: Validate returns an error exactly when the policy is headerHash
\* with an empty headerHashKey; it returns nil for a policy outside the five known
\* ones, and next() then handles the unknown policy at selection time: it logs
\* the bug and selects as roundRobin does.
C7_ValidateChecksHeaderHashKeyOnly ==
    /\ validated # "none" =>
            (validated = "error" <=>
                (spec.loadBalance.policy = policyHeaderHash
                    /\ spec.loadBalance.headerHashKey = ""))
    /\ (phase = "serving" /\ pool.lb.policy \notin Policies) =>
            /\ \A req \in Requests :
                  { [o EXCEPT !.logged = FALSE] : o \in next(pool, req) }
                        = roundRobin(pool, req)
            /\ calls >= 1 => (last.by = "roundRobin" /\ last.logged)

C7_Witness ==
    /\ phase = "serving"
    /\ validated = "nil"
    /\ pool.lb.policy = policyUnknown
    /\ calls >= 1
    /\ last.logged
    /\ ~last.panicked

\* the list indexes of the spec's servers that have at least one tag of ServersTags
Matching ==
    { i \in 1..Len(spec.servers) :
        \E j \in 1..Len(spec.servers[i].tags) : \E k \in 1..Len(spec.serversTags) :
            spec.servers[i].tags[j] = spec.serversTags[k] }

\* the j-th smallest member of a set of numbers
Nth(set, j) == CHOOSE i \in set : Cardinality({k \in set : k < i}) = j - 1

\* C8: newServers builds the pool: the full spec list when ServersTags is empty,
\* otherwise exactly the spec servers with at least one tag in ServersTags, each
\* once and in spec order; weightsSum is the sum of the weights of the pool's
\* servers.
C8_NewServersFilters ==
    phase = "serving" =>
        /\ Len(spec.serversTags) = 0 => pool.servers = spec.servers
        /\ Len(spec.serversTags) > 0 =>
                /\ PoolLen = Cardinality(Matching)
                /\ \A j \in 1..PoolLen : pool.servers[j] = spec.servers[Nth(Matching, j)]
        /\ pool.weightsSum = CumWeight(pool.servers, PoolLen)
        /\ pool.lb = spec.loadBalance

C8_Witness ==
    /\ phase = "serving"
    /\ spec.serversTags = <<"blue", "green">>
    /\ Len(spec.servers) = 3
    /\ spec.servers[1].tags = <<"blue", "green">>
    /\ spec.servers[2].tags = <<>>
    /\ spec.servers[3].tags = <<"blue">>
    /\ [i \in 1..PoolLen |-> pool.servers[i].url] = <<"A", "C">>
    /\ spec.servers[2].weight = 2
    /\ pool.weightsSum = 3

\* C9: the pool is immutable after construction: a next() call, under any
\* policy, leaves the server list (members, order, weights, tags), weightsSum and
\* the load-balance settings unchanged; only the round-robin counter changes, and
\* only in a selection made by roundRobin.
C9_PoolImmutable ==
    [][(phase = "serving" /\ phase' = "serving") =>
            /\ pool'.servers = pool.servers
            /\ pool'.weightsSum = pool.weightsSum
            /\ pool'.lb = pool.lb
            /\ spec' = spec
            /\ pool'.count # pool.count => last'.by = "roundRobin"
            /\ pool.lb.policy \in Policies \ {policyRoundRobin}
                    => pool'.count = pool.count]_vars

C9_Witness ==
    /\ Serving(policyWeightedRandom)
    /\ calls = MaxCalls
    /\ pool.weightsSum = 3
    /\ pool.count = Zero64
    /\ pool = newServers(spec)

-----------------------------------------------------------------------------
(* A roundRobin pool late in its life: s.count is just below 2^63 or just  *)
(* below 2^64, the values at which int(count) changes sign and at which    *)
(* the counter wraps.                                                      *)

\* 2^63 - 2, 2^63 - 1, 2^64 - 2, 2^64 - 1
HighCounts ==
    { <<65534, 65535, 65535, 32767>>, <<65535, 65535, 65535, 32767>>,
      <<65534, 65535, 65535, 65535>>, <<65535, 65535, 65535, 65535>> }

InitWrap ==
    /\ \E n \in 1..MaxServers :
         \E servers \in ServerLists(n, {<<>>}) :
           \E count \in HighCounts :
              /\ spec = [servers |-> servers, serversTags |-> <<>>,
                         loadBalance |-> [policy |-> policyRoundRobin,
                                          headerHashKey |-> ""]]
              /\ pool = [newServers(spec) EXCEPT !.count = count]
    /\ phase = "serving"
    /\ validated = Validate(spec.loadBalance)
    /\ calls = 0
    /\ picks = [i \in 1..Len(pool.servers) |-> 0]
    /\ last = NoCall
    /\ IdleESR /\ IdleGet /\ IdlePrepare /\ IdleConc

NextWrap == CallNext

SpecWrap == InitWrap /\ [][NextWrap]_vars

\* C19: whatever the value of the counter, the values from 2^63 up and the
\* wrap-around to 0 included, a roundRobin selection on a pool of n >= 1
\* servers does not fault and its index lies in 0..n-1.
C19_IndexInRangeForEveryCount ==
    (Serving(policyRoundRobin) /\ PoolLen >= 1 /\ last.by = "roundRobin") =>
        /\ ~last.panicked
        /\ last.index \in 0..(PoolLen - 1)

\* no goroutine is inside roundRobin()
Quiescent == \A g \in DOMAIN inflight : inflight[g].pc = "idle"

\* C18: in every interleaving of concurrent roundRobin() calls on a fresh pool,
\* the calls issued so far have obtained counter values that are all distinct,
\* none has faulted, and whenever k*n calls have been issued and have all
\* returned, each of the n servers has been selected exactly k times.
C18_RoundRobinEvenUnderConcurrency ==
    (phase = "serving" /\ DOMAIN inflight # {}) =>
        /\ Cardinality(obtained) = calls
        /\ \A g \in DOMAIN inflight : ~inflight[g].panicked
        /\ ~last.panicked
        /\ \A k \in 1..MaxRounds :
              (Quiescent /\ PoolLen >= 1 /\ calls = k * PoolLen)
                  => \A i \in 1..PoolLen : picks[i] = k

\* two full rounds over three servers, the last two calls having been in
\* flight together and returned in the opposite order
C18_Witness ==
    /\ phase = "serving"
    /\ DOMAIN inflight # {}
    /\ PoolLen = 3
    /\ calls = 6
    /\ Quiescent
    /\ picks = <<2, 2, 2>>
    /\ last.index = 2

-----------------------------------------------------------------------------
(* The registry's state machine: the goroutine of run() and a caller of    *)
(* Close().                                                                *)

\* no load balancer is running
IdleLB ==
    /\ spec = [servers |-> <<>>, serversTags |-> <<>>,
               loadBalance |-> [policy |-> "", headerHashKey |-> ""]]
    /\ phase = "none"
    /\ validated = "none"
    /\ pool = NoPool
    /\ calls = 0
    /\ picks = <<>>
    /\ last = NoCall

InitRegistry == InitESR /\ IdleLB /\ IdleGet /\ IdlePrepare /\ IdleConc

NextESR ==
    \/ RunParse
    \/ UpdateGetClient
    \/ UpdateFetchFails
    \/ UpdateFetch
    \/ UpdateReplaceServers
    \/ UpdateServersNum
    \/ SelectDone
    \/ SelectTimer
    \/ CloseClient
    \/ CloseDone
    \/ CloseRegistry

SpecESR == InitRegistry /\ [][NextESR]_vars

\* the responses of the specification with fairness: no application, one
\* instance with a plain port, one instance without a plain port
LoopResponses ==
    { <<>>,
      <<[name |-> "svc1", instances |-> <<Instance(Port(8080, TRUE), NilPort)>>]>>,
      <<[name |-> "svc1", instances |-> <<Instance(NilPort, Port(8443, TRUE))>>]>> }

UpdateFetchLoop == UpdateFetchFrom(LoopResponses)

\* the steps of the goroutine of run()
NextRun ==
    \/ RunParse
    \/ UpdateGetClient
    \/ UpdateFetchFails
    \/ UpdateFetchLoop
    \/ UpdateReplaceServers
    \/ UpdateServersNum
    \/ SelectDone
    \/ SelectTimer

NextESRFair ==
    \/ NextRun
    \/ CloseClient
    \/ CloseDone
    \/ CloseRegistry

\* The goroutine of run() is scheduled as long as it can take a step, and every
\* GetApplications call returns. A select that finds several cases ready picks
\* one of them at random, so a loop that keeps finding the done case ready
\* takes it in the end.
SpecESRFair ==
    InitRegistry /\ [][NextESRFair]_vars /\ WF_vars(NextRun) /\ SF_vars(SelectDone)

\* The registry with an upstream of one application and one instance, whose
\* plain port takes values over the whole range of a TCP port.
PortNumbers == {0, 8080, 32767, 32768, 40000, 65535}

PortResponses ==
    { <<[name |-> "svc1", instances |-> <<Instance(Port(p, TRUE), securePort)>>]>> :
        p \in PortNumbers, securePort \in {NilPort, Port(8443, TRUE)} }

UpdateFetchPorts == UpdateFetchFrom(PortResponses)

NextPorts ==
    \/ RunParse
    \/ UpdateGetClient
    \/ UpdateFetchFails
    \/ UpdateFetchPorts
    \/ UpdateReplaceServers
    \/ UpdateServersNum
    \/ SelectDone
    \/ SelectTimer
    \/ CloseClient
    \/ CloseDone
    \/ CloseRegistry

SpecPorts == InitRegistry /\ [][NextPorts]_vars

-----------------------------------------------------------------------------
(* getClient() and buildClient() called concurrently (by New, by a tick of *)
(* update, by Status), lock operation by lock operation, with no           *)
(* closeClient() in between.                                               *)

Callers == 1..MaxCallers

NoGetter == [pc |-> "idle", got |-> NoClient, via |-> "none"]

\* the registry before its first client is built, or with the client that
\* New() has built; every caller is about to call getClient()
InitClient ==
    /\ esrSpec = [name |-> "eureka", syncInterval |-> "10s"]
    /\ \E built \in {0, 1} :
         /\ clients = built
         /\ esr = [client |-> built, serversNum |-> EmptyMap, done |-> "open"]
    /\ run = [pc |-> "none", locals |-> NoLocals]
    /\ closer = "none"
    /\ global = [servers |-> <<>>, replaced |-> FALSE, closed |-> FALSE]
    /\ tick = NoTick
    /\ getters = [c \in Callers |-> NoGetter]
    /\ clientMutex = [readers |-> 0, writer |-> FALSE]
    /\ IdleLB /\ IdlePrepare /\ IdleConc

\* getClient: esr.clientMutex.RLock()
GetClientRLock(c) ==
    /\ getters[c].pc = "idle"
    /\ ~clientMutex.writer
    /\ clientMutex' = [clientMutex EXCEPT !.readers = @ + 1]
    /\ getters' = [getters EXCEPT ![c].pc = "rlocked"]
    /\ UNCHANGED <<lbVars, esrVars, cfgVars, rrVars>>

\* getClient: the test of esr.client under the read lock
GetClientRead(c) ==
    /\ getters[c].pc = "rlocked"
    /\ getters' = [getters EXCEPT
                     ![c] = IF esr.client # NoClient
                            THEN [pc |-> "hit", got |-> esr.client, via |-> "read"]
                            ELSE [@ EXCEPT !.pc = "miss"]]
    /\ UNCHANGED <<lbVars, esrVars, clientMutex, cfgVars, rrVars>>

\* getClient: esr.clientMutex.RUnlock(), then the return of the client read or
\* the call of buildClient
GetClientRUnlock(c) ==
    /\ getters[c].pc \in {"hit", "miss"}
    /\ clientMutex' = [clientMutex EXCEPT !.readers = @ - 1]
    /\ getters' = [getters EXCEPT
                     ![c].pc = IF getters[c].pc = "hit" THEN "returned" ELSE "build"]
    /\ UNCHANGED <<lbVars, esrVars, cfgVars, rrVars>>

\* buildClient: esr.clientMutex.Lock()
BuildClientLock(c) ==
    /\ getters[c].pc = "build"
    /\ ~clientMutex.writer
    /\ clientMutex.readers = 0
    /\ clientMutex' = [clientMutex EXCEPT !.writer = TRUE]
    /\ getters' = [getters EXCEPT ![c].pc = "locked"]
    /\ UNCHANGED <<lbVars, esrVars, cfgVars, rrVars>>

BuildClientNoDCL(c) ==
    /\ getters[c].pc = "locked"
    /\ clients' = clients + 1
    /\ esr' = [esr EXCEPT !.client = clients']
    /\ getters' = [getters EXCEPT
                     ![c] = [pc |-> "unlock", got |-> clients', via |-> "built"]]
    /\ UNCHANGED <<lbVars, esrSpec, run, closer, global, tick, clientMutex,
                   cfgVars, rrVars>>

\* buildClient: under the write lock, the second test of esr.client, and
\* eureka.NewClient and the assignment when there is still no client
BuildClientCheck(c) ==
    /\ getters[c].pc = "locked"
    /\ IF esr.client # NoClient
       THEN /\ getters' = [getters EXCEPT
                             ![c] = [pc |-> "unlock", got |-> esr.client,
                                     via |-> "dcl"]]
            /\ UNCHANGED <<esr, clients>>
       ELSE /\ clients' = clients + 1
            /\ esr' = [esr EXCEPT !.client = clients']
            /\ getters' = [getters EXCEPT
                             ![c] = [pc |-> "unlock", got |-> clients',
                                     via |-> "built"]]
    /\ UNCHANGED <<lbVars, esrSpec, run, closer, global, tick, clientMutex,
                   cfgVars, rrVars>>

\* buildClient: the deferred esr.clientMutex.Unlock(), and the return
BuildClientUnlock(c) ==
    /\ getters[c].pc = "unlock"
    /\ clientMutex' = [clientMutex EXCEPT !.writer = FALSE]
    /\ getters' = [getters EXCEPT ![c].pc = "returned"]
    /\ UNCHANGED <<lbVars, esrVars, cfgVars, rrVars>>

NextClient ==
    \E c \in Callers :
        \/ GetClientRLock(c)
        \/ GetClientRead(c)
        \/ GetClientRUnlock(c)
        \/ BuildClientLock(c)
        \/ BuildClientCheck(c)
        \/ BuildClientUnlock(c)

SpecClient == InitClient /\ [][NextClient]_vars

-----------------------------------------------------------------------------
(* pipelines.CommonConfig.Prepare. A pipeline name is a sequence of         *)
(* characters.                                                             *)

NameChars == {" ", "\t", "p"}

\* unicode.IsSpace on the characters of the model
IsSpace(ch) == ch \in {" ", "\t", "\n", "\r"}

RECURSIVE TrimLeft(_)
TrimLeft(str) ==
    IF Len(str) > 0 /\ IsSpace(Head(str)) THEN TrimLeft(Tail(str)) ELSE str

RECURSIVE TrimRight(_)
TrimRight(str) ==
    IF Len(str) > 0 /\ IsSpace(str[Len(str)])
    THEN TrimRight(SubSeq(str, 1, Len(str) - 1))
    ELSE str

\* strings.TrimSpace: the string without its leading and trailing white space
TrimSpace(str) == TrimRight(TrimLeft(str))

Names == UNION { [1..n -> NameChars] : n \in 0..MaxNameLen }

PluginLists == {<<>>, <<"httpInput">>, <<"httpInput", "httpOutput">>}

\* values of the uint16 ParallelismCount
Parallelisms == {0, 1, 2, 65535}

Configs ==
    { [name |-> n, plugins |-> l, parallelism |-> k] :
        n \in Names, l \in PluginLists, k \in Parallelisms }

errName == "invalid pipeline name"
errEmpty == "pipeline is empty"
errParallelism == "invalid pipeline parallelism"

PrepareParallelismFirst(c) ==
    [config |-> c,
     err |-> IF c.parallelism < 1 THEN errParallelism
             ELSE IF Len(TrimSpace(c.name)) = 0 THEN errName
             ELSE IF Len(c.plugins) = 0 THEN errEmpty
             ELSE "nil"]

\* CommonConfig.Prepare: the error it returns ("nil" for none) and the
\* configuration it leaves
Prepare(c) ==
    [config |-> c,
     err |-> IF Len(TrimSpace(c.name)) = 0 THEN errName
             ELSE IF Len(c.plugins) = 0 THEN errEmpty
             ELSE IF c.parallelism < 1 THEN errParallelism
             ELSE "nil"]

InitPrepare ==
    /\ config \in Configs
    /\ prepared = [err |-> "none", given |-> config]
    /\ IdleLB /\ IdleESR /\ IdleGet /\ IdleConc

\* a call of c.Prepare()
CallPrepare ==
    /\ prepared.err = "none"
    /\ config' = Prepare(config).config
    /\ prepared' = [err |-> Prepare(config).err, given |-> config]
    /\ UNCHANGED <<lbVars, esrVars, getVars, rrVars>>

NextPrepare == CallPrepare

SpecPrepare == InitPrepare /\ [][NextPrepare]_vars

-----------------------------------------------------------------------------
(* Properties of the registry.                                             *)

\* C10: when a tick's GetApplications fails, the tick does not call
\* ReplaceServers and does not write serversNum, so the snapshot and the counts
\* published before the tick are kept; the loop does not end on the failure: it
\* goes back to its select, where the next tick's timer can fire.
C10_FetchFailureKeepsSnapshot ==
    tick.result = "failed" =>
        /\ tick.replaces = 0
        /\ tick.numWrites = 0
        /\ global.servers = tick.servers
        /\ esr.serversNum = tick.serversNum
        /\ run.pc \in {"select", "update", "exited"}
        /\ run.pc = "exited" => esr.done = "closed"
        /\ (run.pc = "select" /\ esr.done = "open") => ENABLED SelectTimer

C10_Witness ==
    /\ tick.result = "failed"
    /\ run.pc = "select"
    /\ esr.done = "open"
    /\ global.replaced
    /\ Len(global.servers) = 2
    /\ esr.serversNum = {<<"svc1", 2>>}

\* the number of entries of a service in a snapshot
CountService(servers, name) ==
    Cardinality({ i \in 1..Len(servers) : servers[i].serviceName = name })

\* the counts of a snapshot: one pair for every service that has an entry
CountsOf(servers) ==
    { <<servers[i].serviceName, CountService(servers, servers[i].serviceName)>> :
        i \in 1..Len(servers) }

\* C11: a tick that succeeded has called ReplaceServers exactly once, with the
\* snapshot built from its own GetApplications response and nothing else, and
\* has then written serversNum once, so that serversNum holds, for every
\* service with an entry in that snapshot, the number of its entries, and no
\* pair for any other service.
C11_TickPublishesItsOwnSnapshot ==
    /\ run.pc = "setNum" =>
          /\ tick.replaces = 1
          /\ tick.numWrites = 0
          /\ global.servers = Flatten(tick.apps).servers
    /\ tick.result = "ok" =>
          /\ tick.replaces = 1
          /\ tick.numWrites = 1
          /\ global.servers = Flatten(tick.apps).servers
          /\ esr.serversNum = CountsOf(global.servers)
          /\ \A e \in esr.serversNum : e[2] >= 1
          /\ \A e1, e2 \in esr.serversNum : e1[1] = e2[1] => e1 = e2

\* a second tick has published fewer entries than the tick before it
C11_Witness ==
    /\ tick.result = "ok"
    /\ Len(tick.servers) = 3
    /\ tick.serversNum = {<<"svc1", 2>>, <<"svc2", 1>>}
    /\ Len(global.servers) = 2
    /\ esr.serversNum = {<<"svc1", 2>>}

\* the instances of a response, application by application
RECURSIVE AllInstances(_, _)
AllInstances(apps, i) ==
    IF i > Len(apps) THEN <<>>
    ELSE apps[i].instances \o AllInstances(apps, i + 1)

\* how many elements of a sequence satisfy a test
CountWhere(seq, Test(_)) == Cardinality({ i \in 1..Len(seq) : Test(seq[i]) })

PlainEnabled(instance) == instance.port.present /\ instance.port.enabled
SecureEnabled(instance) == instance.securePort.present /\ instance.securePort.enabled
IsPlainEntry(server) == server.scheme = ""
IsSecureEntry(server) == server.scheme = "https"

\* C12: once a tick's GetApplications has returned, the tick completes its
\* loops whatever the ports of the instances are (an instance without a plain
\* port included), and the servers it has built hold one plain entry for every
\* instance whose plain port is present and enabled and one https entry for
\* every instance whose secure port is present and enabled.
C12_PortsHandledIndependently ==
    /\ ~Crashed
    /\ run.pc \in {"publish", "setNum"} =>
          /\ CountWhere(run.locals.servers, IsPlainEntry)
                = CountWhere(AllInstances(tick.apps, 1), PlainEnabled)
          /\ CountWhere(run.locals.servers, IsSecureEntry)
                = CountWhere(AllInstances(tick.apps, 1), SecureEnabled)

\* C13: once Close() has called CloseRegistry on the global registry, no step
\* of this registry calls ReplaceServers any more.
C13_NoReplaceAfterCloseRegistry ==
    [][global.closed => tick'.replaces # tick.replaces + 1]_vars

LoopEnded == run.pc \in {"exited", "panicked"}

PositiveInterval ==
    /\ ~ParseDuration(esrSpec.syncInterval).err
    /\ ParseDuration(esrSpec.syncInterval).seconds > 0

C15_BadIntervalEndsLoop ==
    ParseDuration(esrSpec.syncInterval).err =>
        /\ run.pc \in {"start", "exited"}
        /\ tick = NoTick
        /\ ~global.replaced
        /\ global.servers = <<>>
        /\ esr.serversNum = EmptyMap
        /\ closer = "idle" => ENABLED CloseClient
        /\ closer = "closeDone" => ENABLED CloseDone
        /\ closer = "closeRegistry" => ENABLED CloseRegistry
        /\ closer = "closed" <=> global.closed

C15_Witness ==
    /\ ParseDuration(esrSpec.syncInterval).err
    /\ run.pc = "exited"
    /\ closer = "closed"
    /\ esr.done = "closed"
    /\ global.closed

\* C20: every entry that a tick has published carries the plain port number of
\* its instance, for every port number in 0..65535.
C20_PortPublishedUnchanged ==
    tick.replaces = 1 =>
        \A i \in 1..Len(global.servers) :
            \E j \in 1..Len(AllInstances(tick.apps, 1)) :
                LET instance == AllInstances(tick.apps, 1)[j]
                IN  /\ instance.port.present
                    /\ instance.port.port \in 0..65535
                    /\ global.servers[i].hostname = instance.hostName
                    /\ global.servers[i].port = instance.port.port

\* C16: with any number of concurrent getClient() callers and no
\* closeClient(), eureka.NewClient runs at most once, it has run exactly once
\* when a caller has its client, and every caller that has a client has that
\* one client: the one esr.client holds.
C16_ClientBuiltOnce ==
    /\ clients <= 1
    /\ \A c \in DOMAIN getters :
          getters[c].got # NoClient =>
              /\ clients = 1
              /\ getters[c].got = 1
              /\ esr.client = getters[c].got
    /\ \A c \in DOMAIN getters :
          getters[c].pc = "returned" => getters[c].got # NoClient

\* every caller has returned; one built the client, one found it at the second
\* test under the write lock, one found it under the read lock
C16_Witness ==
    /\ \A c \in DOMAIN getters : getters[c].pc = "returned"
    /\ \E c \in DOMAIN getters : getters[c].via = "built"
    /\ \E c \in DOMAIN getters : getters[c].via = "dcl"
    /\ \E c \in DOMAIN getters : getters[c].via = "read"

-----------------------------------------------------------------------------
(* Properties of CommonConfig.Prepare.                                     *)

\* a name that is empty or made of white space only
Blank(name) == \A i \in 1..Len(name) : IsSpace(name[i])

\* C17: Prepare returns an error exactly when the name is blank, or there is
\* no plugin, or the parallelism is 0; a blank name is reported first, then the
\* empty plugin list, then the parallelism; the configuration is left as it
\* was given.
C17_PrepareChecksInOrder ==
    prepared.err # "none" =>
        LET c == prepared.given
        IN  /\ prepared.err # "nil"
                <=> (Blank(c.name) \/ Len(c.plugins) = 0 \/ c.parallelism = 0)
            /\ Blank(c.name) => prepared.err = errName
            /\ (~Blank(c.name) /\ Len(c.plugins) = 0) => prepared.err = errEmpty
            /\ (~Blank(c.name) /\ Len(c.plugins) > 0 /\ c.parallelism = 0)
                  => prepared.err = errParallelism
            /\ config = c

\* a configuration that breaks the three rules at once has been prepared
C17_Witness ==
    /\ prepared.err = errName
    /\ config.name = <<" ", "\t">>
    /\ config.plugins = <<>>
    /\ config.parallelism = 0

====
